---- MODULE Spec2Model ----
(***************************************************************************)
(* timed-srt-generator: the background job (worker.run), the three         *)
(* multiprocessing queues it reports through, and the controller           *)
(* (MainWindow: start_processing, check_worker, closeEvent).               *)
(*                                                                         *)
(* The worker is a separate OS process, so each of its queue puts and each *)
(* of its stages is a step of its own, interleaved with the GUI thread.    *)
(* The GUI thread runs one handler at a time; a handler that opens a modal *)
(* dialog (QMessageBox) runs a nested event loop in which the poll timer   *)
(* keeps firing, so handlers nest: frames is the GUI thread's call stack.  *)
(***************************************************************************)
EXTENDS Integers, Sequences, FiniteSets, TLC

\* Number of jobs the user starts on one controller.
MaxJobs == 2

\* Number of calls of run in one process (ReuseSpec).
MaxRuns == 3

\* Times are Python floats: binary floating point, round to nearest, ties to
\* even. The model keeps Precision bits of significand (CPython: 53) and
\* counts time in ticks of 2^-FracBits seconds, so a time is an integer number
\* of ticks with at most Precision significant bits.
Precision == 14
FracBits == 11

Ticks == 2 ^ FracBits

\* The times formatted (FormatSpec) are m * 2^e ticks, m < 2^Precision and
\* e <= MaxExp: up to a little over an hour.
MaxExp == 9

\* The turns the diarization yields (WriterSpec): at most MaxTurns, starting
\* at 0..MaxStart ticks.
MaxTurns == 3
MaxStart == 2

VARIABLES
    \* ---- worker process (worker.run) ----
    wpc,                  \* position of the worker process in run
    failed,               \* the stage whose except branch was taken, or "none"
    DIARIZATION_PIPELINE, \* module global of the worker process: "None" | "Pipeline"
    emitted,              \* every put of this run, in program order
    sigterm,              \* Process.terminate() was called on the worker
    procs,                \* job numbers of the live worker processes
    runs,                 \* calls of run in the worker's process so far
    loads,                \* calls of Pipeline.from_pretrained in that process
    \* ---- filesystem ----
    temp_audio,           \* temp_audio.wav: 0 absent, j written by job j
    srt_file,             \* the output path: the job that last opened it for
                          \* writing (0: none has) and how far it was written
    \* ---- queues (MainWindow.__init__) ----
    q_progress, q_error_msg, q_result,
    \* ---- controller (MainWindow) ----
    jobs,                 \* number of workers launched so far
    worker_process,       \* 0 is None, j the Process of job j
    worker_check_timer,   \* "None" | "active" | "stopped"
    controls_disabled,    \* the six widgets disabled by on_work_started
    frames,               \* GUI thread call stack, innermost handler last
    rtn,                  \* closeEvent's local rtn: "none" | "Yes" | "No"
    closed,               \* the close event was accepted: the application quits
    dispatched,           \* callbacks dispatched since the last launch
    \* ---- write_diarizaed_to_srt ----
    diarization,          \* the turns itertracks yields, in the model's order
    segments,             \* the local list segments
    blocks,               \* the blocks written to the output file so far
    wr,                   \* position in write_diarizaed_to_srt
    \* ---- srt_time_format ----
    seconds,              \* its argument, in ticks
    formatted             \* its result, a string as a sequence of characters

wvars == <<wpc, failed, DIARIZATION_PIPELINE, emitted, procs, runs, loads,
           temp_audio, srt_file>>
qvars == <<q_progress, q_error_msg, q_result>>
cvars == <<jobs, worker_process, worker_check_timer, controls_disabled, frames,
           rtn, closed, dispatched>>
pvars == <<diarization, segments, blocks, wr, seconds, formatted>>
vars == <<wvars, sigterm, qvars, cvars, pvars>>

----------------------------------------------------------------------------
\* WorkerProgress, in declaration order (enum.auto() numbers them 1..6).
ProgressOrder ==
    <<"Initializing", "PipelineLoading", "AudioExtracting", "Diarizing",
      "SRTOutput", "Finalizing">>

\* The message the except branch of each stage of run puts.
ErrorMessage(stage) ==
    CASE stage = "import"  -> "pyannote import error"
      [] stage = "load"    -> "Pipeline load failed"
      [] stage = "extract" -> "Failed to extract audio with FFmpeg."
      [] stage = "diarize" -> "Diarization failed"
      [] stage = "write"   -> "SRT output failed"

\* A message on a queue: the job that put it and its value.
Msg(v) == [job |-> jobs, v |-> v]

Alive == wpc \notin {"idle", "exited", "killed"}

----------------------------------------------------------------------------
\* worker.run

\* q_progress.put(WorkerProgress.<p>) at position from, continuing at to.
PutProgress(p, from, to) ==
    /\ wpc = from
    /\ q_progress' = Append(q_progress, Msg(p))
    /\ emitted' = Append(emitted, [q |-> "progress", v |-> p])
    /\ wpc' = to
    /\ UNCHANGED <<failed, DIARIZATION_PIPELINE, procs, runs, loads, temp_audio, srt_file, sigterm,
                   q_error_msg, q_result, cvars, pvars>>

\* The position run continues at after q_result.put(False): every except
\* branch ends in return.
OnFailureM(stage) == IF stage = "diarize" THEN "put_SRTOutput" ELSE "return"

OnFailure(stage) == "return"

run_Initializing == PutProgress("Initializing", "put_Initializing", "put_PipelineLoading")

run_PipelineLoading == PutProgress("PipelineLoading", "put_PipelineLoading", "import")

\* from pyannote.audio import Pipeline, inside try/except Exception.
run_import ==
    /\ wpc = "import"
    /\ \E ok \in BOOLEAN :
          IF ok THEN wpc' = "load" /\ failed' = failed
                ELSE wpc' = "except" /\ failed' = "import"
    /\ UNCHANGED <<DIARIZATION_PIPELINE, emitted, procs, runs, loads, temp_audio, srt_file, sigterm, qvars, cvars, pvars>>

\* A version of run_load without the test `if DIARIZATION_PIPELINE is None`:
\* from_pretrained is called by every run.
run_loadM ==
    /\ wpc = "load"
    /\ \E got \in {"Pipeline", "None", "raise"} :
          LET loaded == IF got # "raise" THEN got ELSE DIARIZATION_PIPELINE
              raised == got = "raise" \/ loaded = "None"
          IN /\ DIARIZATION_PIPELINE' = loaded
             /\ loads' = loads + 1
             /\ IF raised THEN wpc' = "except" /\ failed' = "load"
                          ELSE wpc' = "put_AudioExtracting" /\ failed' = failed
    /\ UNCHANGED <<emitted, procs, runs, temp_audio, srt_file, sigterm, qvars, cvars, pvars>>

\* Pipeline.from_pretrained only when the global is None; it returns a
\* pipeline, returns None (then RuntimeError is raised) or raises.
run_load ==
    /\ wpc = "load"
    /\ \E got \in {"Pipeline", "None", "raise"} :
          LET loaded == IF DIARIZATION_PIPELINE = "None" /\ got # "raise"
                           THEN got ELSE DIARIZATION_PIPELINE
              raised == (DIARIZATION_PIPELINE = "None" /\ got = "raise")
                        \/ loaded = "None"
          IN /\ DIARIZATION_PIPELINE' = loaded
             /\ loads' = IF DIARIZATION_PIPELINE = "None" THEN loads + 1 ELSE loads
             /\ IF raised THEN wpc' = "except" /\ failed' = "load"
                          ELSE wpc' = "put_AudioExtracting" /\ failed' = failed
    /\ UNCHANGED <<emitted, procs, runs, temp_audio, srt_file, sigterm, qvars, cvars, pvars>>

\* A version of run in which line 116 is missing: the extraction starts
\* without its progress value.
run_AudioExtractingLate ==
    /\ wpc = "put_AudioExtracting"
    /\ wpc' = "extract"
    /\ UNCHANGED <<failed, DIARIZATION_PIPELINE, emitted, procs, runs, loads,
                   temp_audio, srt_file, sigterm, qvars, cvars, pvars>>

\* A version of line 116 that puts the wrong enum member.
run_AudioExtractingM == PutProgress("Diarizing", "put_AudioExtracting", "extract")

run_AudioExtracting == PutProgress("AudioExtracting", "put_AudioExtracting", "extract")

\* A version of run_extract that does not test what extract_audio_with_ffmpeg
\* returned.
run_extractM ==
    /\ wpc = "extract"
    /\ \E success \in BOOLEAN :
          IF success
             THEN failed' = failed /\ temp_audio' = jobs
             ELSE failed' = "extract" /\ temp_audio' \in {temp_audio, jobs}
    /\ wpc' = "put_Diarizing"
    /\ UNCHANGED <<DIARIZATION_PIPELINE, emitted, procs, runs, loads, srt_file, sigterm, qvars, cvars, pvars>>

\* extract_audio_with_ffmpeg: ffmpeg -y writes temp_audio.wav; when it fails
\* the file is either not touched or left as far as it was written.
run_extract ==
    /\ wpc = "extract"
    /\ \E success \in BOOLEAN :
          IF success
             THEN wpc' = "put_Diarizing" /\ failed' = failed /\ temp_audio' = jobs
             ELSE /\ wpc' = "except" /\ failed' = "extract"
                  /\ temp_audio' \in {temp_audio, jobs}
    /\ UNCHANGED <<DIARIZATION_PIPELINE, emitted, procs, runs, loads, srt_file, sigterm, qvars, cvars, pvars>>

run_Diarizing == PutProgress("Diarizing", "put_Diarizing", "diarize")

\* DIARIZATION_PIPELINE.to(device); DIARIZATION_PIPELINE(audio_output)
run_diarize ==
    /\ wpc = "diarize"
    /\ \E ok \in BOOLEAN :
          IF ok THEN wpc' = "put_SRTOutput" /\ failed' = failed
                ELSE wpc' = "except" /\ failed' = "diarize"
    /\ UNCHANGED <<DIARIZATION_PIPELINE, emitted, procs, runs, loads, temp_audio, srt_file, sigterm, qvars, cvars, pvars>>

run_SRTOutput == PutProgress("SRTOutput", "put_SRTOutput", "write")

\* write_diarizaed_to_srt, first part: the segments are collected and sorted
\* and open(output_srt, 'w') creates or truncates the output file. A failure
\* here leaves the output path as it was.
run_write ==
    /\ wpc = "write"
    /\ \E ok \in BOOLEAN :
          IF ok THEN /\ wpc' = "write_blocks" /\ failed' = failed
                     /\ srt_file' = [job |-> jobs, state |-> "partial"]
                ELSE /\ wpc' = "except" /\ failed' = "write"
                     /\ srt_file' = srt_file
    /\ UNCHANGED <<DIARIZATION_PIPELINE, emitted, procs, runs, loads, temp_audio,
                   sigterm, qvars, cvars, pvars>>

\* write_diarizaed_to_srt, second part: the blocks are written one f.write
\* after the other and the file is closed. A failure here leaves what was
\* written so far.
run_write_blocks ==
    /\ wpc = "write_blocks"
    /\ \E ok \in BOOLEAN :
          IF ok THEN /\ wpc' = "put_Finalizing" /\ failed' = failed
                     /\ srt_file' = [job |-> jobs, state |-> "complete"]
                ELSE /\ wpc' = "except" /\ failed' = "write"
                     /\ srt_file' = srt_file
    /\ UNCHANGED <<DIARIZATION_PIPELINE, emitted, procs, runs, loads, temp_audio,
                   sigterm, qvars, cvars, pvars>>

run_Finalizing == PutProgress("Finalizing", "put_Finalizing", "unlink")

\* A version of run_unlink that lets the OSError escape run.
run_unlinkM ==
    /\ wpc = "unlink"
    /\ \E ok \in BOOLEAN :
          IF ok THEN temp_audio' = 0 /\ wpc' = "put_True"
                ELSE temp_audio' = temp_audio /\ wpc' = "return"
    /\ UNCHANGED <<failed, DIARIZATION_PIPELINE, emitted, procs, runs, loads, srt_file, sigterm, qvars, cvars, pvars>>

\* Path(audio_output).unlink(missing_ok=True); an OSError is swallowed.
run_unlink ==
    /\ wpc = "unlink"
    /\ \E ok \in BOOLEAN :
          temp_audio' = IF ok THEN 0 ELSE temp_audio
    /\ wpc' = "put_True"
    /\ UNCHANGED <<failed, DIARIZATION_PIPELINE, emitted, procs, runs, loads, srt_file, sigterm, qvars, cvars, pvars>>

\* q_result.put(True)
run_success ==
    /\ wpc = "put_True"
    /\ q_result' = Append(q_result, Msg("True"))
    /\ emitted' = Append(emitted, [q |-> "result", v |-> "True"])
    /\ wpc' = "return"
    /\ UNCHANGED <<failed, DIARIZATION_PIPELINE, procs, runs, loads, temp_audio, srt_file, sigterm,
                   q_progress, q_error_msg, cvars, pvars>>

\* The first statement of the except branch taken: q_error_msg.put(...)
run_except ==
    /\ wpc = "except"
    /\ q_error_msg' = Append(q_error_msg, Msg(ErrorMessage(failed)))
    /\ emitted' = Append(emitted, [q |-> "error", v |-> ErrorMessage(failed)])
    /\ wpc' = "put_False"
    /\ UNCHANGED <<failed, DIARIZATION_PIPELINE, procs, runs, loads, temp_audio, srt_file, sigterm,
                   q_progress, q_result, cvars, pvars>>

\* Its second statement, q_result.put(False), and the return after it.
run_failure ==
    /\ wpc = "put_False"
    /\ q_result' = Append(q_result, Msg("False"))
    /\ emitted' = Append(emitted, [q |-> "result", v |-> "False"])
    /\ wpc' = OnFailure(failed)
    /\ UNCHANGED <<failed, DIARIZATION_PIPELINE, procs, runs, loads, temp_audio, srt_file, sigterm,
                   q_progress, q_error_msg, cvars, pvars>>

\* run returns: the worker process exits.
run_return ==
    /\ wpc = "return"
    /\ wpc' = "exited"
    /\ procs' = procs \ {jobs}
    /\ UNCHANGED <<failed, DIARIZATION_PIPELINE, emitted, runs, loads, temp_audio, srt_file, sigterm, qvars, cvars, pvars>>

\* SIGTERM sent by Process.terminate() is delivered: the process dies where
\* it stands (until then it keeps running).
worker_killed ==
    /\ sigterm /\ Alive
    /\ wpc' = "killed"
    /\ procs' = procs \ {jobs}
    /\ UNCHANGED <<failed, DIARIZATION_PIPELINE, emitted, runs, loads, temp_audio, srt_file, sigterm, qvars, cvars, pvars>>

----------------------------------------------------------------------------
\* The GUI thread

Top == frames[Len(frames)]
Pop == SubSeq(frames, 1, Len(frames) - 1)
SetTop(pc) == [frames EXCEPT ![Len(frames)] = pc]

\* The GUI thread is in an event loop: the application's, or the nested one
\* of the modal dialog the innermost handler has open.
InEventLoop ==
    IF frames = <<>> THEN TRUE
    ELSE Top \in {"error_dialog", "done_dialog", "close_question"}

\* A version of on_work_started that leaves the start button enabled.
on_work_startedM == controls_disabled' = controls_disabled

\* on_work_started: setDisabled(True) on the line edits and buttons.
on_work_started == controls_disabled' = TRUE

\* A version of on_work_finished that does not re-enable the widgets.
on_work_finishedM == controls_disabled' = controls_disabled

\* on_work_finished: setDisabled(False) on the line edits and buttons.
on_work_finished == controls_disabled' = FALSE

\* A drain that leaves the queue as it is.
DrainedM(q) == q

\* while not q.empty(): q.get_nowait()
Drained(q) == <<>>

\* start_button.clicked, with a video path that exists and an output path
\* (otherwise start_processing returns after a message box, changing
\* nothing): drain the three queues, create and start the worker process and
\* the poll timer, then on_work_started. A disabled button emits no click; a
\* modal dialog takes the window's input.
start_processing ==
    /\ ~closed /\ frames = <<>> /\ ~controls_disabled
    /\ jobs < MaxJobs
    /\ q_progress' = Drained(q_progress)
    /\ q_error_msg' = Drained(q_error_msg)
    /\ q_result' = Drained(q_result)
    /\ jobs' = jobs + 1
    /\ worker_process' = jobs + 1
    /\ worker_check_timer' = "active"
    /\ wpc' = "put_Initializing"
    /\ failed' = "none"
    /\ DIARIZATION_PIPELINE' = "None"
    /\ runs' = 1 /\ loads' = 0
    /\ emitted' = <<>>
    /\ sigterm' = FALSE
    /\ procs' = procs \cup {jobs + 1}
    /\ dispatched' = <<>>
    /\ on_work_started
    /\ UNCHANGED <<temp_audio, srt_file, frames, rtn, closed, pvars>>

\* worker_check_timer.timeout: check_worker is entered.
check_worker ==
    /\ ~closed /\ worker_check_timer = "active" /\ InEventLoop
    /\ frames' = Append(frames, "progress")
    /\ UNCHANGED <<pvars, wvars, sigterm, qvars, jobs, worker_process, worker_check_timer,
                   controls_disabled, rtn, closed, dispatched>>

\* A version of check_worker_progress that reads with one blocking get().
check_worker_progressM ==
    /\ frames # <<>> /\ Top = "progress"
    /\ q_progress # <<>>
    /\ q_progress' = Tail(q_progress) /\ frames' = SetTop("errors")
    /\ UNCHANGED <<pvars, wvars, sigterm, q_error_msg, q_result, jobs, worker_process,
                   worker_check_timer, controls_disabled, rtn, closed, dispatched>>

\* while not q_progress.empty(): q_progress.get_nowait()
check_worker_progress ==
    /\ frames # <<>> /\ Top = "progress"
    /\ IF q_progress # <<>>
          THEN q_progress' = Tail(q_progress) /\ frames' = frames
          ELSE q_progress' = q_progress /\ frames' = SetTop("errors")
    /\ UNCHANGED <<pvars, wvars, sigterm, q_error_msg, q_result, jobs, worker_process,
                   worker_check_timer, controls_disabled, rtn, closed, dispatched>>

\* while not q_error_msg.empty(): on_work_error(q_error_msg.get_nowait()),
\* which opens QMessageBox.critical.
check_worker_errors ==
    /\ frames # <<>> /\ Top = "errors"
    /\ IF q_error_msg # <<>>
          THEN /\ q_error_msg' = Tail(q_error_msg)
               /\ dispatched' = Append(dispatched,
                      [cb |-> "on_work_error", job |-> Head(q_error_msg).job,
                       v |-> Head(q_error_msg).v])
               /\ frames' = SetTop("error_dialog")
          ELSE /\ q_error_msg' = q_error_msg /\ dispatched' = dispatched
               /\ frames' = SetTop("result")
    /\ UNCHANGED <<pvars, wvars, sigterm, q_progress, q_result, jobs, worker_process,
                   worker_check_timer, controls_disabled, rtn, closed>>

\* The user dismisses the error box: on_work_error returns into the loop.
on_work_error_return ==
    /\ frames # <<>> /\ Top = "error_dialog"
    /\ frames' = SetTop("errors")
    /\ UNCHANGED <<pvars, wvars, sigterm, qvars, jobs, worker_process, worker_check_timer,
                   controls_disabled, rtn, closed, dispatched>>

\* A test of the result that every result passes.
TruthyM(result) == TRUE

\* if result:
Truthy(result) == result = "True"

\* if not q_result.empty(): result = get_nowait(); worker_check_timer.stop();
\* if result: on_diarization_done(), which opens QMessageBox.information.
\* (worker_check_timer None here would raise AttributeError out of the slot.)
check_worker_result ==
    /\ frames # <<>> /\ Top = "result"
    /\ IF q_result = <<>>
          THEN /\ frames' = Pop
               /\ UNCHANGED <<q_result, worker_check_timer, dispatched>>
          ELSE /\ q_result' = Tail(q_result)
               /\ IF worker_check_timer = "None"
                     THEN /\ frames' = Pop
                          /\ UNCHANGED <<worker_check_timer, dispatched>>
                     ELSE /\ worker_check_timer' = "stopped"
                          /\ IF Truthy(Head(q_result).v)
                                THEN /\ frames' = SetTop("done_dialog")
                                     /\ dispatched' = Append(dispatched,
                                          [cb |-> "on_diarization_done",
                                           job |-> Head(q_result).job, v |-> "True"])
                                ELSE /\ frames' = SetTop("finished")
                                     /\ dispatched' = dispatched
    /\ UNCHANGED <<pvars, wvars, sigterm, q_progress, q_error_msg, jobs, worker_process,
                   controls_disabled, rtn, closed>>

\* The user dismisses the success box: on_diarization_done returns.
on_diarization_done_return ==
    /\ frames # <<>> /\ Top = "done_dialog"
    /\ frames' = SetTop("finished")
    /\ UNCHANGED <<pvars, wvars, sigterm, qvars, jobs, worker_process, worker_check_timer,
                   controls_disabled, rtn, closed, dispatched>>

\* self.on_work_finished()
check_worker_finished ==
    /\ frames # <<>> /\ Top = "finished"
    /\ on_work_finished
    /\ dispatched' = Append(dispatched,
           [cb |-> "on_work_finished", job |-> worker_process, v |-> "finished"])
    /\ frames' = SetTop("join")
    /\ UNCHANGED <<pvars, wvars, sigterm, qvars, jobs, worker_process, worker_check_timer,
                   rtn, closed>>

\* self.worker_process.join() returns once the process has exited; then
\* worker_check_timer = None and worker_process = None.
check_worker_join ==
    /\ frames # <<>> /\ Top = "join"
    /\ worker_process \notin procs
    /\ worker_check_timer' = "None"
    /\ worker_process' = 0
    /\ frames' = Pop
    /\ UNCHANGED <<pvars, wvars, sigterm, qvars, jobs, controls_disabled, rtn, closed,
                   dispatched>>

\* closeEvent: with a worker process, ask "Force quit?"; without one,
\* super().closeEvent(event) accepts the close.
closeEvent ==
    /\ ~closed /\ frames = <<>>
    /\ IF worker_process # 0
          THEN frames' = <<"close_question">> /\ rtn' = "none" /\ closed' = closed
          ELSE frames' = frames /\ rtn' = rtn /\ closed' = TRUE
    /\ UNCHANGED <<pvars, wvars, sigterm, qvars, jobs, worker_process, worker_check_timer,
                   controls_disabled, dispatched>>

\* The user answers the question box.
closeEvent_answer ==
    /\ frames # <<>> /\ Top = "close_question"
    /\ \E answer \in {"Yes", "No"} : rtn' = answer
    /\ frames' = SetTop("close_rtn")
    /\ UNCHANGED <<pvars, wvars, sigterm, qvars, jobs, worker_process, worker_check_timer,
                   controls_disabled, closed, dispatched>>

\* A version of the test of rtn that never takes the early return.
DeclinedM == FALSE

\* if rtn == QMessageBox.StandardButton.No
Declined == rtn = "No"

\* event.ignore(); return
closeEvent_ignore ==
    /\ frames # <<>> /\ Top = "close_rtn"
    /\ Declined
    /\ frames' = Pop
    /\ UNCHANGED <<pvars, wvars, sigterm, qvars, jobs, worker_process, worker_check_timer,
                   controls_disabled, rtn, closed, dispatched>>

\* self.worker_process.terminate(). When check_worker has cleared
\* worker_process while the question box was open this raises AttributeError
\* out of closeEvent, and the toolkit decides whether the window closes.
closeEvent_terminate ==
    /\ frames # <<>> /\ Top = "close_rtn"
    /\ ~Declined
    /\ IF worker_process = 0
          THEN /\ frames' = Pop
               /\ closed' \in BOOLEAN
               /\ sigterm' = sigterm
          ELSE /\ frames' = SetTop("close_join")
               /\ closed' = closed
               /\ sigterm' = TRUE
    /\ UNCHANGED <<pvars, wvars, qvars, jobs, worker_process, worker_check_timer,
                   controls_disabled, rtn, dispatched>>

\* self.worker_process.join() returns once the process has exited; then
\* super().closeEvent(event) accepts the close.
closeEvent_join ==
    /\ frames # <<>> /\ Top = "close_join"
    /\ worker_process \notin procs
    /\ closed' = TRUE
    /\ frames' = Pop
    /\ UNCHANGED <<pvars, wvars, sigterm, qvars, jobs, worker_process, worker_check_timer,
                   controls_disabled, rtn, dispatched>>

----------------------------------------------------------------------------
\* MainWindow as constructed, no worker started.
NoJob ==
    /\ wpc = "idle" /\ failed = "none" /\ DIARIZATION_PIPELINE = "None"
    /\ emitted = <<>> /\ sigterm = FALSE /\ procs = {}
    /\ runs = 0 /\ loads = 0
    /\ temp_audio = 0 /\ srt_file = [job |-> 0, state |-> "untouched"]
    /\ q_progress = <<>> /\ q_error_msg = <<>> /\ q_result = <<>>
    /\ jobs = 0 /\ worker_process = 0 /\ worker_check_timer = "None"
    /\ controls_disabled = FALSE /\ frames = <<>> /\ rtn = "none"
    /\ closed = FALSE /\ dispatched = <<>>

Init ==
    /\ NoJob
    /\ diarization = <<>> /\ segments = <<>> /\ blocks = <<>> /\ wr = "idle"
    /\ seconds = 0 /\ formatted = <<>>

\* One call of run, from its first statement to its return.
Run ==
    \/ run_Initializing \/ run_PipelineLoading \/ run_import \/ run_load
    \/ run_AudioExtracting \/ run_extract \/ run_Diarizing \/ run_diarize
    \/ run_SRTOutput \/ run_write \/ run_write_blocks \/ run_Finalizing
    \/ run_unlink \/ run_success \/ run_except \/ run_failure \/ run_return

Worker == Run \/ worker_killed

Poll ==
    \/ check_worker_progress \/ check_worker_errors \/ check_worker_result
    \/ check_worker_finished \/ check_worker_join

Dialogs == on_work_error_return \/ on_diarization_done_return

\* The part of closeEvent that runs once the question box has returned.
CloseHandler == closeEvent_ignore \/ closeEvent_terminate \/ closeEvent_join

Close == closeEvent \/ closeEvent_answer \/ CloseHandler

Next == Worker \/ start_processing \/ check_worker \/ Poll \/ Dialogs \/ Close

Spec == Init /\ [][Next]_vars

\* run called again in the process it has returned in (a caller other than
\* start_processing, which starts a process per job): the module global
\* DIARIZATION_PIPELINE is what the earlier calls left.
run_again ==
    /\ wpc = "exited" /\ runs < MaxRuns
    /\ wpc' = "put_Initializing"
    /\ failed' = "none"
    /\ emitted' = <<>>
    /\ runs' = runs + 1
    /\ UNCHANGED <<DIARIZATION_PIPELINE, procs, loads, temp_audio, srt_file,
                   sigterm, qvars, cvars, pvars>>

\* One process that calls run directly, MaxRuns times, on the same queues.
ReuseInit ==
    /\ wpc = "put_Initializing" /\ failed = "none" /\ DIARIZATION_PIPELINE = "None"
    /\ emitted = <<>> /\ sigterm = FALSE /\ procs = {}
    /\ runs = 1 /\ loads = 0
    /\ temp_audio = 0 /\ srt_file = [job |-> 0, state |-> "untouched"]
    /\ q_progress = <<>> /\ q_error_msg = <<>> /\ q_result = <<>>
    /\ jobs = 1 /\ worker_process = 0 /\ worker_check_timer = "None"
    /\ controls_disabled = FALSE /\ frames = <<>> /\ rtn = "none"
    /\ closed = FALSE /\ dispatched = <<>>
    /\ diarization = <<>> /\ segments = <<>> /\ blocks = <<>> /\ wr = "idle"
    /\ seconds = 0 /\ formatted = <<>>

ReuseNext == Run \/ run_again

ReuseSpec == ReuseInit /\ [][ReuseNext]_vars

\* The timer fires every 100 ms whenever an event loop runs, handlers and the
\* worker run to completion, and the user dismisses message boxes.
FairSpec ==
    /\ Spec
    /\ SF_vars(check_worker)
    /\ WF_vars(Poll)
    /\ WF_vars(CloseHandler)
    /\ WF_vars(Dialogs)
    /\ WF_vars(Worker)

TypeOK ==
    /\ Len(frames) <= 3
    /\ jobs \in 0..MaxJobs
    /\ worker_process \in 0..MaxJobs
    /\ temp_audio \in 0..MaxJobs
    /\ worker_check_timer \in {"None", "active", "stopped"}

----------------------------------------------------------------------------
\* srt_time_format (the same function in worker.py and diarization.py)

Digit(d) == <<"0", "1", "2", "3", "4", "5", "6", "7", "8", "9">>[d + 1]

\* str(n) for n >= 0
RECURSIVE Decimal(_)
Decimal(n) == IF n < 10 THEN <<Digit(n)>> ELSE Decimal(n \div 10) \o <<Digit(n % 10)>>

\* f"{n:0<w>d}": zeros on the left up to width w, never cutting digits.
RECURSIVE ZeroPad(_, _)
ZeroPad(str, w) == IF Len(str) >= w THEN str ELSE ZeroPad(<<"0">> \o str, w)

\* The number of bits of n.
RECURSIVE BitLength(_)
BitLength(n) == IF n = 0 THEN 0 ELSE 1 + BitLength(n \div 2)

\* The float nearest to n / Ticks, as a number of 1/Ticks again: n rounded to
\* Precision significant bits, ties to even.
RoundToFloat(n) ==
    IF BitLength(n) <= Precision THEN n
    ELSE LET ulp == 2 ^ (BitLength(n) - Precision)
             q   == n \div ulp
             r   == n % ulp
         IN IF 2 * r > ulp \/ (2 * r = ulp /\ q % 2 = 1)
            THEN (q + 1) * ulp
            ELSE q * ulp

\* hours = int(seconds // 3600); minutes = int((seconds % 3600) // 60);
\* secs = int(seconds % 60); millis = int((seconds - int(seconds)) * 1000);
\* f"{hours:02d}:{minutes:02d}:{secs:02d},{millis:03d}", for t ticks. Floor
\* division, remainder and the subtraction of the integer part are exact on
\* floats; the product by 1000 is rounded.
srt_time_format(t) ==
    LET hours   == t \div (3600 * Ticks)
        minutes == (t % (3600 * Ticks)) \div (60 * Ticks)
        secs    == (t % (60 * Ticks)) \div Ticks
        millis  == RoundToFloat((t - Ticks * (t \div Ticks)) * 1000) \div Ticks
    IN ZeroPad(Decimal(hours), 2) \o <<":">> \o ZeroPad(Decimal(minutes), 2) \o <<":">>
       \o ZeroPad(Decimal(secs), 2) \o <<",">> \o ZeroPad(Decimal(millis), 3)

\* One call of srt_time_format.
format_time ==
    /\ formatted = <<>>
    /\ formatted' = srt_time_format(seconds)
    /\ UNCHANGED <<wvars, sigterm, qvars, cvars, diarization, segments, blocks, wr,
                   seconds>>

\* The floats of at most 2^Precision * 2^MaxExp ticks.
Floats == {m * 2 ^ e : m \in 0..(2 ^ Precision - 1), e \in 0..MaxExp}

\* srt_time_format applied to every one of Floats.
FormatInit ==
    /\ NoJob
    /\ diarization = <<>> /\ segments = <<>> /\ blocks = <<>> /\ wr = "idle"
    /\ seconds \in Floats /\ formatted = <<>>

FormatNext == format_time

FormatSpec == FormatInit /\ [][FormatNext]_vars

----------------------------------------------------------------------------
\* write_diarizaed_to_srt (worker.py) and write_srt_diarized (diarization.py)

Speakers == {"SPEAKER_00", "SPEAKER_01"}

\* The turns a diarization can hold, and the sequences of them itertracks can
\* yield: any order, repetitions included.
Turns ==
    {[start |-> st, end |-> st + 1, speaker |-> sp] :
        st \in 0..MaxStart, sp \in Speakers}

Diarizations == UNION {[1..n -> Turns] : n \in 0..MaxTurns}

\* sorted(segments, key=lambda x: x[0]): for lists this short Python's sort
\* is a binary insertion sort, which puts an element after the elements with
\* an equal key that came before it.
RECURSIVE Insert(_, _)
Insert(x, s) ==
    IF s = <<>> THEN <<x>>
    ELSE IF x.start < Head(s).start THEN <<x>> \o s
    ELSE <<Head(s)>> \o Insert(x, Tail(s))

\* Insertion before the elements with an equal key.
RECURSIVE InsertM(_, _)
InsertM(x, s) ==
    IF s = <<>> THEN <<x>>
    ELSE IF x.start <= Head(s).start THEN <<x>> \o s
    ELSE <<Head(s)>> \o InsertM(x, Tail(s))

\* A version of sorted that is not stable.
RECURSIVE sortedM(_)
sortedM(s) ==
    IF s = <<>> THEN <<>>
    ELSE InsertM(s[Len(s)], sortedM(SubSeq(s, 1, Len(s) - 1)))

RECURSIVE sorted(_)
sorted(s) ==
    IF s = <<>> THEN <<>>
    ELSE Insert(s[Len(s)], sorted(SubSeq(s, 1, Len(s) - 1)))

\* The three lines of block i: f"{i}\n", the timing line and f"[{speaker}]: ".
Block(i, seg) ==
    [index  |-> Decimal(i),
     timing |-> srt_time_format(seg.start) \o <<" ", "-", "-", ">", " ">>
                \o srt_time_format(seg.end),
     label  |-> <<"[", seg.speaker, "]", ":", " ">>]

\* for turn, _, speaker in diarization.itertracks(yield_label=True):
\*     segments.append((turn.start, turn.end, speaker))
write_itertracks ==
    /\ wr = "itertracks"
    /\ segments' = diarization
    /\ wr' = "sorted"
    /\ UNCHANGED <<wvars, sigterm, qvars, cvars, diarization, blocks, seconds,
                   formatted>>

\* segments = sorted(segments, key=lambda x: x[0]); open(output_srt, 'w')
write_sorted ==
    /\ wr = "sorted"
    /\ segments' = sorted(segments)
    /\ wr' = "write"
    /\ UNCHANGED <<wvars, sigterm, qvars, cvars, diarization, blocks, seconds,
                   formatted>>

\* One iteration of for i, (start, end, speaker) in enumerate(segments, start=1)
write_block ==
    /\ wr = "write" /\ Len(blocks) < Len(segments)
    /\ blocks' = Append(blocks, Block(Len(blocks) + 1, segments[Len(blocks) + 1]))
    /\ UNCHANGED <<wvars, sigterm, qvars, cvars, diarization, segments, wr, seconds,
                   formatted>>

\* The loop ends and the with statement closes the file.
write_close ==
    /\ wr = "write" /\ Len(blocks) = Len(segments)
    /\ wr' = "closed"
    /\ UNCHANGED <<wvars, sigterm, qvars, cvars, diarization, segments, blocks,
                   seconds, formatted>>

\* The writer applied to every diarization of at most MaxTurns turns.
WriterInit ==
    /\ NoJob
    /\ diarization \in Diarizations /\ segments = <<>> /\ blocks = <<>>
    /\ wr = "itertracks"
    /\ seconds = 0 /\ formatted = <<>>

WriterNext == write_itertracks \/ write_sorted \/ write_block \/ write_close

WriterSpec == WriterInit /\ [][WriterNext]_vars

----------------------------------------------------------------------------
\* What the worker has put so far, per queue.

IsPrefix(s, t) == Len(s) <= Len(t) /\ s = SubSeq(t, 1, Len(s))

Puts(q) == SelectSeq(emitted, LAMBDA m : m.q = q)

ProgressPut == [i \in 1..Len(Puts("progress")) |-> Puts("progress")[i].v]

\* The number of progress values put before the given stage runs.
ProgressBefore(stage) ==
    CASE stage \in {"import", "load"} -> 2
      [] stage = "extract" -> 3
      [] stage = "diarize" -> 4
      [] stage = "write"   -> 5

\* The worker has returned from run (it was not killed).
Returned == wpc = "exited"

----------------------------------------------------------------------------
\* C1: in every state of every run of the worker, whatever stages succeed or
\* fail, the progress values put so far are a prefix of the six WorkerProgress
\* values in declaration order: none skipped, repeated or out of order.
C1_ProgressIsPrefix == IsPrefix(ProgressPut, ProgressOrder)

C1_Witness == Returned /\ failed = "none" /\ ProgressPut = ProgressOrder

\* C2: the worker puts at most one result; once put, the result is the last
\* thing it has put; and a worker that has reached its return, or has exited
\* on its own, has put exactly one.
C2_OneResultLast ==
    /\ Len(Puts("result")) <= 1
    /\ Len(Puts("result")) = 1 => emitted[Len(emitted)].q = "result"
    /\ wpc \in {"return", "exited"} => Len(Puts("result")) = 1

C2_Witness ==
    /\ Returned /\ Len(Puts("error")) = 1 /\ Len(Puts("progress")) >= 1
    /\ emitted[Len(emitted)] = [q |-> "result", v |-> "False"]

\* C3: once a stage has failed, the progress values put are exactly those up
\* to the failing stage's own, at most one error message is put, and a worker
\* that has reached its return has put exactly these progress values, then
\* the stage's error message, then False, and nothing else.
C3_FailFast ==
    failed # "none" =>
        /\ ProgressPut = SubSeq(ProgressOrder, 1, ProgressBefore(failed))
        /\ Len(Puts("error")) <= 1
        /\ wpc \in {"return", "exited"} =>
              emitted = Puts("progress") \o
                        <<[q |-> "error", v |-> ErrorMessage(failed)],
                          [q |-> "result", v |-> "False"]>>

C3_Witness == Returned /\ failed = "diarize" /\ Len(emitted) = 6

\* C4: when the Diarizing or the SRTOutput stage has failed (so the
\* AudioExtracting stage had written the temporary file) and the worker has
\* exited, the temporary audio file is absent.
C4_TempAbsentAfterLaterFailure ==
    (Returned /\ failed \in {"diarize", "write"}) => temp_audio = 0

\* C5: when the controller has ended the job (it has consumed the job's result
\* and stopped the poll timer), no error message is left in the error queue.
C5_NoErrorLeftAtJobEnd ==
    (jobs > 0 /\ worker_check_timer # "active") => q_error_msg = <<>>

\* C6: there is never more than one live worker process, and a worker is
\* launched only when the controller holds no worker process and none is
\* alive.
C6_OneJobAtATime ==
    /\ [](Cardinality(procs) <= 1)
    /\ [][jobs' # jobs => (worker_process = 0 /\ procs = {})]_vars

C6_Witness == jobs = 2 /\ wpc = "put_Diarizing" /\ worker_process = 2

\* The controller has reclaimed the worker: no process handle, no timer, and
\* the widgets enabled.
Reclaimed ==
    worker_process = 0 /\ worker_check_timer = "None" /\ ~controls_disabled

\* C7: once a result is on the result queue, the controller eventually has
\* reclaimed the worker and re-enabled the widgets, unless the job is
\* cancelled by a confirmed close.
C7_EventuallyReclaimed == (q_result # <<>>) ~> (Reclaimed \/ sigterm)

C7_Witness ==
    /\ Reclaimed /\ jobs = 1 /\ ~sigterm /\ Returned /\ frames = <<>>
    /\ dispatched # <<>> /\ dispatched[Len(dispatched)].cb = "on_work_finished"

\* C8: terminate() is called only after the user answered Yes; the close is
\* accepted only when no worker process is alive; after the answer No the
\* handler changes nothing of the controller or the job; and a close accepted
\* with no worker process terminates nothing.
C8_ConfirmedHardKill ==
    /\ [][(sigterm' /\ ~sigterm) => rtn = "Yes"]_vars
    /\ [](closed => procs = {})
    /\ [][(frames # <<>> /\ frames[Len(frames)] = "close_rtn" /\ rtn = "No") =>
             /\ UNCHANGED <<sigterm, closed, jobs, worker_process,
                            worker_check_timer, controls_disabled, dispatched>>
             /\ ~(wpc' = "killed" /\ wpc # "killed")]_vars
    /\ [][(worker_process = 0 /\ closed' /\ ~closed) =>
             UNCHANGED <<sigterm, procs, wpc>>]_vars

C8_Witness == closed /\ sigterm /\ rtn = "Yes" /\ wpc = "killed" /\ frames = <<>>

\* C9: after a confirmed cancel has closed the window, the controller holds no
\* worker process, its poll timer is not running, and it has dispatched no
\* terminal result (success box or finish handling) for the job.
C9_CancelCleansUp ==
    (closed /\ sigterm) =>
        /\ worker_process = 0
        /\ worker_check_timer # "active"
        /\ \A i \in 1..Len(dispatched) :
              dispatched[i].cb \notin {"on_diarization_done", "on_work_finished"}

\* C10: once the worker has ended, by returning or by being killed, the
\* temporary audio file written by its job does not remain.
C10_NoLeakedTemp ==
    (jobs > 0 /\ wpc \in {"exited", "killed"}) => temp_audio # jobs

\* The worker of the current job has ended: run returned or it was killed.
Ended == jobs > 0 /\ wpc \in {"exited", "killed"}

HasPut(p) == \E i \in 1..Len(ProgressPut) : ProgressPut[i] = p

\* C11: once the worker has ended, an output file that its job opened for
\* writing is completely written, never partial.
C11_NoPartialOutput ==
    (Ended /\ srt_file.job = jobs) => srt_file.state = "complete"

\* C12: whenever the worker stands at a stage's work, and whenever a side
\* effect of the current job exists (the temporary file it wrote, the output
\* file it opened), that stage's progress value has been put already.
C12_MarkerBeforeWork ==
    /\ wpc \in {"import", "load"} => HasPut("PipelineLoading")
    /\ wpc = "extract" => HasPut("AudioExtracting")
    /\ wpc = "diarize" => HasPut("Diarizing")
    /\ wpc \in {"write", "write_blocks"} => HasPut("SRTOutput")
    /\ wpc = "unlink" => HasPut("Finalizing")
    /\ (Alive /\ temp_audio = jobs) => HasPut("AudioExtracting")
    /\ (Alive /\ srt_file.job = jobs) => HasPut("SRTOutput")

C12_Witness ==
    /\ wpc = "unlink" /\ temp_audio = jobs
    /\ srt_file = [job |-> jobs, state |-> "complete"]
    /\ ProgressPut = ProgressOrder

\* C13: in a process that calls run repeatedly, once the pipeline is cached no
\* step calls from_pretrained or changes the cache; a run whose load failed
\* leaves the cache empty; and a run that reaches the load with an empty cache
\* calls from_pretrained.
C13_IdempotentLoad ==
    /\ [][DIARIZATION_PIPELINE = "Pipeline" =>
             (loads' = loads /\ DIARIZATION_PIPELINE' = "Pipeline")]_vars
    /\ [](failed = "load" => DIARIZATION_PIPELINE = "None")
    /\ [][(wpc = "load" /\ wpc' # "load" /\ DIARIZATION_PIPELINE = "None") =>
             loads' = loads + 1]_vars

\* Three runs: a failed load, a second load that succeeds, a third run that
\* reuses the cached pipeline.
C13_Witness ==
    /\ runs = 3 /\ loads = 2 /\ Returned /\ failed = "none"
    /\ DIARIZATION_PIPELINE = "Pipeline"

\* C16: when the worker has put True, it has put all six progress values in
\* order and nothing else before it, no stage has failed and it has put no
\* error message; the pipeline is loaded and the output file is complete.
C16_TrueOnlyAfterAllStages ==
    (\E i \in 1..Len(Puts("result")) : Puts("result")[i].v = "True") =>
        /\ ProgressPut = ProgressOrder
        /\ failed = "none"
        /\ Puts("error") = <<>>
        /\ DIARIZATION_PIPELINE = "Pipeline"
        /\ srt_file = [job |-> jobs, state |-> "complete"]

C16_Witness ==
    /\ wpc = "return" /\ Len(emitted) = 7
    /\ emitted[7] = [q |-> "result", v |-> "True"]

\* C17: a worker that has written the output file completely and has returned
\* has put Finalizing and then True and no error message, whether the
\* temporary file was deleted or not; and from the deletion the worker goes on
\* to put True whatever the deletion did.
C17_FinalizationNeverFails ==
    /\ [][wpc = "unlink" => wpc' \in {"unlink", "put_True", "killed"}]_vars
    /\ []((Returned /\ srt_file = [job |-> jobs, state |-> "complete"]) =>
             /\ emitted = Puts("progress") \o <<[q |-> "result", v |-> "True"]>>
             /\ ProgressPut = ProgressOrder)

\* The deletion failed and the job succeeded.
C17_Witness ==
    /\ Returned /\ temp_audio = jobs
    /\ srt_file = [job |-> jobs, state |-> "complete"]
    /\ Puts("result") = <<[q |-> "result", v |-> "True"]>>

\* C18: inside check_worker, up to the join, the poll always has a step it can
\* take at once (it never waits for a message), and it is at the join only
\* when the result of the current job has been put and taken: the worker is
\* at its return or has exited.
C18_PollNeverBlocks ==
    frames # <<>> =>
        /\ Top \in {"progress", "errors", "result", "finished"} => ENABLED Poll
        /\ Top \in {"finished", "join"} =>
              /\ wpc \in {"return", "exited"}
              /\ Len(Puts("result")) = 1 /\ q_result = <<>>

\* The poll is in join() and the worker has not exited yet.
C18_Witness == frames # <<>> /\ Top = "join" /\ wpc = "return" /\ jobs \in procs

\* C19: every message on the three queues was put by the current job, and so
\* was every message handed to a callback since the launch of the current
\* job.
C19_NoCrossJobMessages ==
    /\ \A i \in 1..Len(q_progress) : q_progress[i].job = jobs
    /\ \A i \in 1..Len(q_error_msg) : q_error_msg[i].job = jobs
    /\ \A i \in 1..Len(q_result) : q_result[i].job = jobs
    /\ \A i \in 1..Len(dispatched) : dispatched[i].job = jobs

\* The second job on the same controller has failed, its error message has
\* been shown and its result is on the queue.
C19_Witness ==
    /\ jobs = 2 /\ Len(q_result) = 1 /\ q_result[1].job = 2
    /\ \E i \in 1..Len(dispatched) :
          dispatched[i].cb = "on_work_error" /\ dispatched[i].job = 2

\* How many times the callback was dispatched since the launch.
Dispatches(cb) == Cardinality({i \in 1..Len(dispatched) : dispatched[i].cb = cb})

\* C20: per job, on_work_finished and on_diarization_done are dispatched at
\* most once; on_diarization_done only when the worker has put True, and never
\* together with on_work_error; and when the result has been taken off the
\* queue and check_worker has returned, on_work_finished was dispatched once
\* and the worker process and the timer are cleared.
C20_FinishOnce ==
    /\ Dispatches("on_work_finished") <= 1
    /\ Dispatches("on_diarization_done") <= 1
    /\ Dispatches("on_diarization_done") = 1 =>
          /\ Puts("result") = <<[q |-> "result", v |-> "True"]>>
          /\ Dispatches("on_work_error") = 0
    /\ (Puts("result") # <<>> /\ q_result = <<>> /\ frames = <<>>) =>
          /\ Dispatches("on_work_finished") = 1
          /\ worker_process = 0 /\ worker_check_timer = "None"
          /\ ~controls_disabled

\* A tick inside the error box has taken the result and finished the job.
C20_Witness ==
    /\ Len(frames) = 2 /\ frames[1] = "error_dialog" /\ frames[2] = "join"
    /\ Dispatches("on_work_error") = 1 /\ Dispatches("on_work_finished") = 1

\* The injective maps of 1..n onto itself.
Orders(n) ==
    {p \in [1..n -> 1..n] : \A i, j \in 1..n : i # j => p[i] # p[j]}

\* C14: when the writer has closed the file it has written one block per turn,
\* numbered 1..N, and block i is the block of the i-th turn in ascending order
\* of start, turns with equal start in the order itertracks yielded them.
C14_StableOrderOneBlockPerTurn ==
    wr = "closed" =>
        /\ Len(blocks) = Len(diarization)
        /\ \A i \in 1..Len(blocks) : blocks[i].index = Decimal(i)
        /\ \E p \in Orders(Len(diarization)) :
              /\ \A i \in 1..Len(blocks) : blocks[i] = Block(i, diarization[p[i]])
              /\ \A i, j \in 1..Len(blocks) :
                    i < j =>
                       \/ diarization[p[i]].start < diarization[p[j]].start
                       \/ /\ diarization[p[i]].start = diarization[p[j]].start
                          /\ p[i] < p[j]

\* Three turns out of order, two of them starting together with different
\* speakers.
C14_Witness ==
    /\ wr = "closed" /\ Len(diarization) = 3 /\ Len(blocks) = 3
    /\ diarization[1].start = 2
    /\ diarization[2].start = 0 /\ diarization[3].start = 0
    /\ diarization[2].speaker = "SPEAKER_01" /\ diarization[3].speaker = "SPEAKER_00"

DigitValue(c) == CHOOSE d \in 0..9 : Digit(d) = c

IsDigit(c) == \E d \in 0..9 : Digit(d) = c

\* int(str) of the characters from..to of a string of digits.
RECURSIVE Number(_, _, _)
Number(str, from, to) ==
    IF to < from THEN 0
    ELSE 10 * Number(str, from, to - 1) + DigitValue(str[to])

\* C15: the result of srt_time_format is HH:MM:SS,mmm, two digits each for
\* hours, minutes and seconds and three for the milliseconds, minutes and
\* seconds below 60, and the fields add up to the time in whole milliseconds,
\* truncated.
C15_TimeFormat ==
    formatted # <<>> =>
        /\ Len(formatted) = 12
        /\ formatted[3] = ":" /\ formatted[6] = ":" /\ formatted[9] = ","
        /\ \A i \in {1, 2, 4, 5, 7, 8, 10, 11, 12} : IsDigit(formatted[i])
        /\ Number(formatted, 4, 5) < 60
        /\ Number(formatted, 7, 8) < 60
        /\ Number(formatted, 1, 2) * 3600000 + Number(formatted, 4, 5) * 60000
             + Number(formatted, 7, 8) * 1000 + Number(formatted, 10, 12)
           = (seconds \div Ticks) * 1000 + ((seconds % Ticks) * 1000) \div Ticks

\* What of C15 does hold: the shape of the string, and a time that is at
\* most one millisecond above the truncated one.
C15_ShapeAndWithinOneMilli ==
    formatted # <<>> =>
        /\ Len(formatted) = 12
        /\ formatted[3] = ":" /\ formatted[6] = ":" /\ formatted[9] = ","
        /\ \A i \in {1, 2, 4, 5, 7, 8, 10, 11, 12} : IsDigit(formatted[i])
        /\ Number(formatted, 4, 5) < 60
        /\ Number(formatted, 7, 8) < 60
        /\ Number(formatted, 1, 2) * 3600000 + Number(formatted, 4, 5) * 60000
             + Number(formatted, 7, 8) * 1000 + Number(formatted, 10, 12)
           - ((seconds \div Ticks) * 1000 + ((seconds % Ticks) * 1000) \div Ticks)
           \in {0, 1}

\* The two examples: 0.0 -> 00:00:00,000 and 3661.25 -> 01:01:01,250
C15_Examples ==
    formatted # <<>> =>
        /\ seconds = 0 =>
             formatted = <<"0", "0", ":", "0", "0", ":", "0", "0", ",", "0", "0", "0">>
        /\ seconds * 4 = 14645 * Ticks =>
             formatted = <<"0", "1", ":", "0", "1", ":", "0", "1", ",", "2", "5", "0">>

C15_ExamplesReached ==
    /\ seconds * 4 = 14645 * Ticks
    /\ formatted = <<"0", "1", ":", "0", "1", ":", "0", "1", ",", "2", "5", "0">>

====
